---- MODULE Spec2Model ----
(***************************************************************************)
(* Booking domain of the clean-architecture service: the availability     *)
(* windows and the bookings kept in the database, and the service calls   *)
(* (domain/booking/service.go) that read and write them through the       *)
(* repository.  Instants are small integers.  A call that reads and then  *)
(* writes is two steps, the reads and the write, because the service      *)
(* opens no transaction: other callers' steps may fall in between.        *)
(***************************************************************************)
EXTENDS Integers, Sequences, FiniteSets, Bags, TLC

\* ---------------------------------------------------------------- bounds
\* instants are 0..MaxTime
MaxTime == 3
\* the clock stops advancing at MaxNow
MaxNow == 1
\* rows the bookings table may hold
MaxBookings == 2
\* rows the availabilities table may hold
MaxWindows == 2
\* bits of the machine integer the list handlers compute with, scaled down
IntBits == 4
\* the largest page size a list request may ask for, scaled down
MaxLimit == 2

Times == 0..MaxTime

\* the callers of the service; one caller alone makes its calls one at a time
Callers == {"c1", "c2"}

\* the resource directory: "r1" is a stored resource, "r0" an id of no resource
Resources == {"r1"}
ResourceIDs == {"r1", "r0"}

\* the zero time.Time of a request field that was not provided
ZeroTime == -1
\* the zero UUID of a call that names no booking
NoID == 0

VARIABLES now, availabilities, bookings, pc, call

vars == <<now, availabilities, bookings, pc, call>>

\* ------------------------------------------------------------ the records
NoBooking == [uuid |-> NoID, resourceID |-> "r0", startTime |-> ZeroTime,
              endTime |-> ZeroTime, status |-> ""]

\* the response of a list call: the request's page and limit, the items
\* and the pagination block
NoList == [page |-> 0, limit |-> 0, items |-> <<>>, total |-> 0,
           hasNext |-> FALSE]

NoCall == [op |-> "none", resourceID |-> "r0", id |-> NoID,
           start |-> ZeroTime, end |-> ZeroTime, status |-> "",
           res |-> "none", rec |-> NoBooking, list |-> NoList]

\* time.Time.Before
Before(a, b) == a < b

\* ------------------------------------------------------------- repository
\* GetResourceByID: gorm.ErrRecordNotFound when no row has the uuid
ResourceExists(r) == r \in Resources

\* IsAvailable with the test of FindOverlappingBookings: a window that only
\* touches the range counts
IsAvailableTouching(avs, r, start, end) ==
    LET rows == {w \in BagToSet(avs) :
                    /\ w.resourceID = r
                    /\ w.startTime <= end
                    /\ w.endTime >= start}
        count == BagCardinality([w \in rows |-> CopiesIn(w, avs)])
    IN count > 0

\* IsAvailable with end_time > end: a window ending with the range is missed
IsAvailableStrictEnd(avs, r, start, end) ==
    LET rows == {w \in BagToSet(avs) :
                    /\ w.resourceID = r
                    /\ w.startTime <= start
                    /\ w.endTime > end}
        count == BagCardinality([w \in rows |-> CopiesIn(w, avs)])
    IN count > 0

\* IsAvailable: the number of rows of the availabilities table of the resource
\* with start_time <= start AND end_time >= end is positive.  The table is a
\* bag of rows: the uuid of a row is opaque and plays no part in a query.
IsAvailable(avs, r, start, end) ==
    LET rows == {w \in BagToSet(avs) :
                    /\ w.resourceID = r
                    /\ w.startTime <= start
                    /\ w.endTime >= end}
        count == BagCardinality([w \in rows |-> CopiesIn(w, avs)])
    IN count > 0

\* an overlap query that only finds bookings starting inside [start, end]
FindOverlappingBookingsStartInside(bks, r, start, end) ==
    {i \in DOMAIN bks :
        /\ bks[i].resourceID = r
        /\ start <= bks[i].startTime
        /\ bks[i].startTime <= end
        /\ bks[i].status # "cancelled"}

\* rows of the bookings table of one resource that are not cancelled and
\* touch [start, end]: start_time <= end AND end_time >= start
FindOverlappingBookings(bks, r, start, end) ==
    {i \in DOMAIN bks :
        /\ bks[i].resourceID = r
        /\ bks[i].startTime <= end
        /\ bks[i].endTime >= start
        /\ bks[i].status # "cancelled"}

\* GetBookingByID: the row with the uuid, 0 when there is none
GetBookingByID(bks, id) ==
    IF \E i \in DOMAIN bks : bks[i].uuid = id
    THEN CHOOSE i \in DOMAIN bks : bks[i].uuid = id
    ELSE 0

\* ---------------------------------------------------------------- service
isValidStatus(status) ==
    status \in {"pending", "confirmed", "cancelled", "completed"}

\* CheckResourceAvailability without the IsAvailable query: a range no
\* booking touches is reported available
CheckResultNoCalendar(avs, bks, t, r, start, end) ==
    IF Before(end, start) \/ Before(start, t) THEN "InvalidTimeRange"
    ELSE IF ~ResourceExists(r) THEN "ResourceNotFound"
    ELSE IF FindOverlappingBookings(bks, r, start, end) # {} THEN "false"
    ELSE "true"

\* CheckResourceAvailability without the resource lookup: an unknown
\* resource is answered from the bookings and availabilities tables
CheckResultNoLookup(avs, bks, t, r, start, end) ==
    IF Before(end, start) \/ Before(start, t) THEN "InvalidTimeRange"
    ELSE IF FindOverlappingBookings(bks, r, start, end) # {} THEN "false"
    ELSE IF IsAvailable(avs, r, start, end) THEN "true"
    ELSE "false"

\* what CheckResourceAvailability returns: "true", "false" or an error
CheckResult(avs, bks, t, r, start, end) ==
    IF Before(end, start) \/ Before(start, t) THEN "InvalidTimeRange"
    ELSE IF ~ResourceExists(r) THEN "ResourceNotFound"
    ELSE IF FindOverlappingBookings(bks, r, start, end) # {} THEN "false"
    ELSE IF IsAvailable(avs, r, start, end) THEN "true"
    ELSE "false"

\* ---------------------------------------------------------------- actions
\* the clock
Tick ==
    /\ now < MaxNow
    /\ now' = now + 1
    /\ UNCHANGED <<availabilities, bookings, pc, call>>

\* Service.CreateAvailability: validation, resource lookup, insert
CreateAvailability(p, r, start, end, recurring, rule) ==
    /\ pc[p] = "idle"
    /\ BagCardinality(availabilities) < MaxWindows
    /\ LET res == IF Before(end, start) \/ Before(start, now)
                  THEN "InvalidTimeRange"
                  ELSE IF ~ResourceExists(r) THEN "ResourceNotFound"
                  ELSE "ok"
           row == [resourceID |-> r, startTime |-> start, endTime |-> end,
                   isRecurring |-> recurring, recurRule |-> rule]
       IN /\ availabilities' = IF res = "ok"
                               THEN availabilities (+) SetToBag({row})
                               ELSE availabilities
          /\ call' = [call EXCEPT ![p] =
                        [NoCall EXCEPT !.op = "CreateAvailability",
                                       !.resourceID = r, !.start = start,
                                       !.end = end, !.res = res]]
    /\ pc' = [pc EXCEPT ![p] = "done"]
    /\ UNCHANGED <<now, bookings>>

\* Repository.IsAvailable called on its own
IsAvailableCall(p, r, start, end) ==
    /\ pc[p] = "idle"
    /\ call' = [call EXCEPT ![p] =
                  [NoCall EXCEPT !.op = "IsAvailable",
                                 !.resourceID = r, !.start = start,
                                 !.end = end,
                                 !.res = IF IsAvailable(availabilities, r, start, end)
                                         THEN "true" ELSE "false"]]
    /\ pc' = [pc EXCEPT ![p] = "done"]
    /\ UNCHANGED <<now, availabilities, bookings>>

\* a CheckResourceAvailability that holds the range it reports available
\* by inserting a pending booking for it
CheckResourceAvailabilityHolding(p, r, start, end) ==
    /\ pc[p] = "idle"
    /\ LET res == CheckResult(availabilities, bookings, now, r, start, end)
       IN /\ call' = [call EXCEPT ![p] =
                        [NoCall EXCEPT !.op = "CheckResourceAvailability",
                                       !.resourceID = r, !.start = start,
                                       !.end = end, !.res = res]]
          /\ bookings' = IF res = "true"
                         THEN Append(bookings,
                                     [uuid |-> Len(bookings) + 1,
                                      resourceID |-> r, startTime |-> start,
                                      endTime |-> end, status |-> "pending"])
                         ELSE bookings
    /\ pc' = [pc EXCEPT ![p] = "done"]
    /\ UNCHANGED <<now, availabilities>>

\* Service.CheckResourceAvailability
CheckResourceAvailability(p, r, start, end) ==
    /\ pc[p] = "idle"
    /\ call' = [call EXCEPT ![p] =
                  [NoCall EXCEPT !.op = "CheckResourceAvailability",
                                 !.resourceID = r, !.start = start,
                                 !.end = end,
                                 !.res = CheckResult(availabilities, bookings,
                                                     now, r, start, end)]]
    /\ pc' = [pc EXCEPT ![p] = "done"]
    /\ UNCHANGED <<now, availabilities, bookings>>

\* Service.CreateBooking without its own check of the start against the
\* clock: a past start is left to CheckResourceAvailability
CreateResultNoPast(avs, bks, t, r, start, end) ==
    LET available == CheckResult(avs, bks, t, r, start, end)
    IN IF Before(end, start) THEN "InvalidTimeRange"
       ELSE IF available \notin {"true", "false"} THEN available
       ELSE IF available = "false" THEN "ResourceNotAvailable"
       ELSE "pending"

\* the checks of Service.CreateBooking: an error, or "pending" the insert
CreateResult(avs, bks, t, r, start, end) ==
    LET available == CheckResult(avs, bks, t, r, start, end)
    IN IF Before(end, start) THEN "InvalidTimeRange"
       ELSE IF Before(start, t) THEN "PastDateBooking"
       ELSE IF available \notin {"true", "false"} THEN available
       ELSE IF available = "false" THEN "ResourceNotAvailable"
       ELSE "pending"

\* the row Service.CreateBooking hands to the repository, status left to
\* the column default of the bookings table
NewBookingColumnDefault(r, start, end, status) ==
    [uuid |-> NoID, resourceID |-> r, startTime |-> start, endTime |-> end,
     status |-> IF status = "" THEN "pending" ELSE status]

\* the row Service.CreateBooking hands to the repository: the request's
\* fields, status confirmed when the caller gave none
NewBooking(r, start, end, status) ==
    [uuid |-> NoID, resourceID |-> r, startTime |-> start, endTime |-> end,
     status |-> IF status = "" THEN "confirmed" ELSE status]

\* Service.CreateBooking up to the insert: validation, CheckResourceAvailability,
\* uuid and default status
CreateBookingCheck(p, r, start, end, status) ==
    /\ pc[p] = "idle"
    /\ Len(bookings) + Cardinality({q \in Callers : pc[q] = "insert"})
          < MaxBookings
    /\ LET res == CreateResult(availabilities, bookings, now, r, start, end)
           booking == NewBooking(r, start, end, status)
       IN /\ call' = [call EXCEPT ![p] =
                        [NoCall EXCEPT !.op = "CreateBooking",
                                       !.resourceID = r, !.start = start,
                                       !.end = end, !.status = status,
                                       !.res = res,
                                       !.rec = IF res = "pending" THEN booking
                                               ELSE NoBooking]]
          /\ pc' = [pc EXCEPT ![p] = IF res = "pending" THEN "insert" ELSE "done"]
    /\ UNCHANGED <<now, availabilities, bookings>>

\* Repository.CreateBooking: the row is inserted under a fresh uuid
CreateBookingInsert(p) ==
    /\ pc[p] = "insert"
    /\ LET row == [call[p].rec EXCEPT !.uuid = Len(bookings) + 1]
       IN /\ bookings' = Append(bookings, row)
          /\ call' = [call EXCEPT ![p].res = "ok", ![p].rec = row]
    /\ pc' = [pc EXCEPT ![p] = "done"]
    /\ UNCHANGED <<now, availabilities>>

\* a closure that copies every field the request provides, the status also
\* when a time is provided
ApplyUpdateEveryField(b, reqStart, reqEnd, reqStatus) ==
    [b EXCEPT !.startTime = IF reqStart # ZeroTime THEN reqStart ELSE @,
              !.endTime = IF reqEnd # ZeroTime THEN reqEnd ELSE @,
              !.status = IF reqStatus # "" THEN reqStatus ELSE @]

\* the closure Controller.UpdateBooking hands to the service: the request's
\* fields that were provided are copied into the loaded booking
ApplyUpdate(b, reqStart, reqEnd, reqStatus) ==
    LET timeChanged == reqStart # ZeroTime \/ reqEnd # ZeroTime
    IN [b EXCEPT !.startTime = IF reqStart # ZeroTime THEN reqStart ELSE @,
                 !.endTime = IF reqEnd # ZeroTime THEN reqEnd ELSE @,
                 !.status = IF reqStatus # "" /\ ~timeChanged
                            THEN reqStatus ELSE @]

\* Service.UpdateBooking up to the save: load, closure, validation and, when
\* the times changed, the overlap and availability queries
UpdateBookingCheck(p, id, reqStart, reqEnd, reqStatus) ==
    /\ pc[p] = "idle"
    /\ LET i == GetBookingByID(bookings, id)
           original == IF i = 0 THEN NoBooking ELSE bookings[i]
           booking == ApplyUpdate(original, reqStart, reqEnd, reqStatus)
           hasOverlap ==
               \E j \in FindOverlappingBookings(bookings, booking.resourceID,
                                                booking.startTime, booking.endTime) :
                   bookings[j].uuid # booking.uuid
           res == IF i = 0 THEN "BookingNotFound"
                  ELSE IF Before(booking.endTime, booking.startTime)
                       THEN "InvalidTimeRange"
                  ELSE IF ~isValidStatus(booking.status)
                       THEN "InvalidBookingStatus"
                  ELSE IF booking.startTime = original.startTime
                          /\ booking.endTime = original.endTime
                       THEN "pending"
                  ELSE IF Before(booking.startTime, now) THEN "PastDateBooking"
                  ELSE IF hasOverlap THEN "BookingOverlap"
                  ELSE IF ~IsAvailable(availabilities, booking.resourceID,
                                       booking.startTime, booking.endTime)
                       THEN "ResourceNotAvailable"
                  ELSE "pending"
       IN /\ call' = [call EXCEPT ![p] =
                        [NoCall EXCEPT !.op = "UpdateBooking", !.id = id,
                                       !.start = reqStart, !.end = reqEnd,
                                       !.status = reqStatus, !.res = res,
                                       !.rec = IF res = "pending" THEN booking
                                               ELSE NoBooking]]
          /\ pc' = [pc EXCEPT ![p] = IF res = "pending" THEN "save" ELSE "done"]
    /\ UNCHANGED <<now, availabilities, bookings>>

\* a cancel that toggles: it cancels an active booking and puts a cancelled
\* one back to confirmed
CancelBookingLoadToggle(p, id) ==
    /\ pc[p] = "idle"
    /\ LET i == GetBookingByID(bookings, id)
           res == IF i = 0 THEN "BookingNotFound" ELSE "pending"
       IN /\ call' = [call EXCEPT ![p] =
                        [NoCall EXCEPT !.op = "CancelBooking", !.id = id,
                                       !.res = res,
                                       !.rec = IF i = 0 THEN NoBooking
                                               ELSE [bookings[i] EXCEPT
                                                        !.status =
                                                           IF @ = "cancelled"
                                                           THEN "confirmed"
                                                           ELSE "cancelled"]]]
          /\ pc' = [pc EXCEPT ![p] = IF res = "pending" THEN "save" ELSE "done"]
    /\ UNCHANGED <<now, availabilities, bookings>>

\* Service.CancelBooking up to the save: load, status := cancelled
CancelBookingLoad(p, id) ==
    /\ pc[p] = "idle"
    /\ LET i == GetBookingByID(bookings, id)
           res == IF i = 0 THEN "BookingNotFound" ELSE "pending"
       IN /\ call' = [call EXCEPT ![p] =
                        [NoCall EXCEPT !.op = "CancelBooking", !.id = id,
                                       !.res = res,
                                       !.rec = IF i = 0 THEN NoBooking
                                               ELSE [bookings[i] EXCEPT
                                                        !.status = "cancelled"]]]
          /\ pc' = [pc EXCEPT ![p] = IF res = "pending" THEN "save" ELSE "done"]
    /\ UNCHANGED <<now, availabilities, bookings>>

\* a save that deletes the row of a booking whose status is cancelled
UpdateBookingSaveDeleting(p) ==
    /\ pc[p] = "save"
    /\ LET i == GetBookingByID(bookings, call[p].rec.uuid)
       IN bookings' = IF call[p].rec.status = "cancelled"
                      THEN SubSeq(bookings, 1, i - 1)
                              \o SubSeq(bookings, i + 1, Len(bookings))
                      ELSE [bookings EXCEPT ![i] = call[p].rec]
    /\ call' = [call EXCEPT ![p].res = "ok"]
    /\ pc' = [pc EXCEPT ![p] = "done"]
    /\ UNCHANGED <<now, availabilities>>

\* Repository.UpdateBooking: DB.Save writes every column of the in-memory
\* booking over its row
UpdateBookingSave(p) ==
    /\ pc[p] = "save"
    /\ LET i == GetBookingByID(bookings, call[p].rec.uuid)
       IN bookings' = [bookings EXCEPT ![i] = call[p].rec]
    /\ call' = [call EXCEPT ![p].res = "ok"]
    /\ pc' = [pc EXCEPT ![p] = "done"]
    /\ UNCHANGED <<now, availabilities>>

\* Repository.CreateBooking returns the error of DB.Create: no row is
\* inserted and Service.CreateBooking returns that error as it is
CreateBookingInsertFails(p) ==
    /\ pc[p] = "insert"
    /\ call' = [call EXCEPT ![p].res = "WriteError", ![p].rec = NoBooking]
    /\ pc' = [pc EXCEPT ![p] = "done"]
    /\ UNCHANGED <<now, availabilities, bookings>>

\* Repository.UpdateBooking returns the error of DB.Save: the row stays as
\* it was and the service returns that error as it is
UpdateBookingSaveFails(p) ==
    /\ pc[p] = "save"
    /\ call' = [call EXCEPT ![p].res = "WriteError", ![p].rec = NoBooking]
    /\ pc' = [pc EXCEPT ![p] = "done"]
    /\ UNCHANGED <<now, availabilities, bookings>>

\* a failing read that has already inserted the requested booking as a
\* pending hold
CreateBookingReadFailsHolding(p, r, start, end) ==
    /\ pc[p] = "idle"
    /\ ~Before(end, start)
    /\ ~Before(start, now)
    /\ Len(bookings) < MaxBookings
    /\ bookings' = Append(bookings,
                          [uuid |-> Len(bookings) + 1, resourceID |-> r,
                           startTime |-> start, endTime |-> end,
                           status |-> "pending"])
    /\ call' = [call EXCEPT ![p] =
                  [NoCall EXCEPT !.op = "CreateBooking", !.resourceID = r,
                                 !.start = start, !.end = end,
                                 !.res = "ReadError"]]
    /\ pc' = [pc EXCEPT ![p] = "done"]
    /\ UNCHANGED <<now, availabilities>>

\* Service.CreateBooking when a query of CheckResourceAvailability returns
\* a storage error: the range has passed validation, the error is returned
CreateBookingReadFails(p, r, start, end) ==
    /\ pc[p] = "idle"
    /\ ~Before(end, start)
    /\ ~Before(start, now)
    /\ call' = [call EXCEPT ![p] =
                  [NoCall EXCEPT !.op = "CreateBooking", !.resourceID = r,
                                 !.start = start, !.end = end,
                                 !.res = "ReadError"]]
    /\ pc' = [pc EXCEPT ![p] = "done"]
    /\ UNCHANGED <<now, availabilities, bookings>>

\* Service.UpdateBooking when the load of the booking returns a storage
\* error other than not-found
UpdateBookingReadFails(p, id) ==
    /\ pc[p] = "idle"
    /\ call' = [call EXCEPT ![p] =
                  [NoCall EXCEPT !.op = "UpdateBooking", !.id = id,
                                 !.res = "ReadError"]]
    /\ pc' = [pc EXCEPT ![p] = "done"]
    /\ UNCHANGED <<now, availabilities, bookings>>

\* Service.CancelBooking when the load of the booking returns a storage
\* error other than not-found
CancelBookingReadFails(p, id) ==
    /\ pc[p] = "idle"
    /\ call' = [call EXCEPT ![p] =
                  [NoCall EXCEPT !.op = "CancelBooking", !.id = id,
                                 !.res = "ReadError"]]
    /\ pc' = [pc EXCEPT ![p] = "done"]
    /\ UNCHANGED <<now, availabilities, bookings>>

\* the largest machine integer, and the value an integer operation wraps to
MaxInt == 2^(IntBits - 1) - 1
WrapInt(x) == ((x + MaxInt + 1) % (2 * (MaxInt + 1))) - (MaxInt + 1)

\* the rows a list query selects: all rows, or those with the filter's status
MatchingRows(bks, status) ==
    {i \in DOMAIN bks : status = "" \/ bks[i].status = status}

\* the orders ORDER BY start_time ASC may return the rows in: rows with the
\* same start come in any order
StartOrders(bks, rows) ==
    {ord \in [1..Cardinality(rows) -> rows] :
        /\ \A j, k \in 1..Cardinality(rows) : j # k => ord[j] # ord[k]
        /\ \A j, k \in 1..Cardinality(rows) :
              j < k => bks[ord[j]].startTime <= bks[ord[k]].startTime}

\* Controller.ListBookings over Repository.ListBookings: count, offset,
\* limit, order by start, and the pagination block of the response
ListBookings(p, page, limit, status) ==
    /\ pc[p] = "idle"
    /\ \E ord \in StartOrders(bookings, MatchingRows(bookings, status)) :
          LET total == Cardinality(MatchingRows(bookings, status))
              offset == WrapInt((page - 1) * limit)
              last == IF offset + limit < total THEN offset + limit ELSE total
              items == [j \in 1..(last - offset) |-> bookings[ord[offset + j]]]
          IN call' = [call EXCEPT ![p] =
                        [NoCall EXCEPT !.op = "ListBookings",
                                       !.status = status, !.res = "ok",
                                       !.list =
                                          [page |-> page, limit |-> limit,
                                           items |-> items, total |-> total,
                                           hasNext |->
                                              WrapInt(page * limit) < total]]]
    /\ pc' = [pc EXCEPT ![p] = "done"]
    /\ UNCHANGED <<now, availabilities, bookings>>

\* the call returns its result to the caller, who may then make another call
Return(p) ==
    /\ pc[p] = "done"
    /\ pc' = [pc EXCEPT ![p] = "idle"]
    /\ call' = [call EXCEPT ![p] = NoCall]
    /\ UNCHANGED <<now, availabilities, bookings>>

\* ------------------------------------------------- the availability calendar
\* the recurrence rules a window is stored with
RecurInputs == {<<FALSE, "">>, <<TRUE, "FREQ=DAILY">>}

InitCal ==
    /\ now = 0
    /\ availabilities = EmptyBag
    /\ bookings = <<>>
    /\ pc = [p \in Callers |-> "idle"]
    /\ call = [p \in Callers |-> NoCall]

NextCal ==
    \/ \E r \in ResourceIDs, s \in Times, e \in Times, ru \in RecurInputs :
          CreateAvailability("c1", r, s, e, ru[1], ru[2])
    \/ \E r \in ResourceIDs, s \in Times, e \in Times :
          IsAvailableCall("c1", r, s, e)
    \/ \E r \in ResourceIDs, s \in Times, e \in Times :
          CheckResourceAvailability("c1", r, s, e)
    \/ Return("c1")

SpecCal == InitCal /\ [][NextCal]_vars

\* ------------------------------------------------- the reservation engine
\* the calendar the engine runs against: one window [0, 2) of resource r1,
\* stored by CreateAvailability at instant 0
InitWindow == [resourceID |-> "r1", startTime |-> 0, endTime |-> 2,
               isRecurring |-> FALSE, recurRule |-> ""]

Init ==
    /\ now = 0
    /\ availabilities = SetToBag({InitWindow})
    /\ bookings = <<>>
    /\ pc = [p \in Callers |-> "idle"]
    /\ call = [p \in Callers |-> NoCall]

\* the ranges of the requests: a start and an end that differ, in either order
RangeInputs == {x \in Times \X Times : x[1] # x[2]}
\* the status of an update request: "" when left out
StatusInputs == {"", "pending", "confirmed", "cancelled", "completed", "bogus"}
\* the update requests: a new range or a new status
UpdateInputs ==
    {<<x[1], x[2], "">> : x \in RangeInputs}
      \cup {<<ZeroTime, ZeroTime, st>> : st \in StatusInputs}

\* the calls of one caller
Calls(p) ==
    \/ \E r \in ResourceIDs, x \in RangeInputs :
          CheckResourceAvailability(p, r, x[1], x[2])
    \/ \E r \in ResourceIDs, x \in RangeInputs :
          CreateBookingCheck(p, r, x[1], x[2], "")
    \/ CreateBookingInsert(p)
    \/ \E id \in 1..MaxBookings, u \in UpdateInputs :
          UpdateBookingCheck(p, id, u[1], u[2], u[3])
    \/ \E id \in 1..MaxBookings : CancelBookingLoad(p, id)
    \/ UpdateBookingSave(p)
    \/ Return(p)

\* one caller: every call ends before the next begins
Next ==
    \/ Tick
    \/ Calls("c1")

Spec == Init /\ [][Next]_vars

\* ------------------------------------------------------ concurrent callers
\* the ranges two callers contend for
ContendedRanges == {<<0, 1>>, <<1, 2>>, <<0, 2>>}

ConcCalls(p) ==
    \/ \E x \in ContendedRanges :
          CreateBookingCheck(p, "r1", x[1], x[2], "")
    \/ CreateBookingInsert(p)
    \/ \E id \in 1..MaxBookings, x \in ContendedRanges :
          UpdateBookingCheck(p, id, x[1], x[2], "")
    \/ \E id \in 1..MaxBookings :
          UpdateBookingCheck(p, id, ZeroTime, ZeroTime, "")
    \/ \E id \in 1..MaxBookings : CancelBookingLoad(p, id)
    \/ UpdateBookingSave(p)
    \/ Return(p)

\* every caller makes calls; the steps of their calls interleave
NextConc == \E p \in Callers : ConcCalls(p)

SpecConc == Init /\ [][NextConc]_vars

\* ------------------------------------------- requests with optional fields
\* a field of an update request: an instant, or the zero time when left out
TimeInputs == Times \cup {ZeroTime}

\* one caller whose requests may be empty ranges, may carry a status on
\* create, and may name any of start, end and status on update
FieldCalls(p) ==
    \/ \E s \in Times, e \in Times, st \in {"", "pending", "bogus"} :
          CreateBookingCheck(p, "r1", s, e, st)
    \/ CreateBookingInsert(p)
    \/ \E id \in 1..MaxBookings, s \in TimeInputs, e \in TimeInputs,
          st \in {"", "cancelled"} :
          UpdateBookingCheck(p, id, s, e, st)
    \/ UpdateBookingSave(p)
    \/ Return(p)

NextFields == FieldCalls("c1")

SpecFields == Init /\ [][NextFields]_vars

\* ------------------------------------------------------- moving bookings
\* a calendar with room for two bookings that do not touch: one window
\* [0, MaxTime) of resource r1
WideWindow == [resourceID |-> "r1", startTime |-> 0, endTime |-> MaxTime,
               isRecurring |-> FALSE, recurRule |-> ""]

InitWide ==
    /\ now = 0
    /\ availabilities = SetToBag({WideWindow})
    /\ bookings = <<>>
    /\ pc = [p \in Callers |-> "idle"]
    /\ call = [p \in Callers |-> NoCall]

\* one caller who creates bookings, moves them and cancels them
MoveCalls(p) ==
    \/ \E x \in RangeInputs : CreateBookingCheck(p, "r1", x[1], x[2], "")
    \/ CreateBookingInsert(p)
    \/ \E id \in 1..MaxBookings, x \in RangeInputs :
          UpdateBookingCheck(p, id, x[1], x[2], "")
    \/ \E id \in 1..MaxBookings : CancelBookingLoad(p, id)
    \/ UpdateBookingSave(p)
    \/ Return(p)

NextMove == MoveCalls("c1")

SpecMove == InitWide /\ [][NextMove]_vars

\* ------------------------------------------------------- failing storage
\* one caller against a database whose reads and writes may return an error
StorageCalls(p) ==
    \/ \E r \in ResourceIDs, x \in RangeInputs :
          CreateBookingCheck(p, r, x[1], x[2], "")
    \/ \E r \in ResourceIDs, x \in RangeInputs :
          CreateBookingReadFails(p, r, x[1], x[2])
    \/ CreateBookingInsert(p)
    \/ CreateBookingInsertFails(p)
    \/ \E id \in 1..MaxBookings, x \in RangeInputs :
          UpdateBookingCheck(p, id, x[1], x[2], "")
    \/ \E id \in 1..MaxBookings : UpdateBookingReadFails(p, id)
    \/ \E id \in 1..MaxBookings : CancelBookingLoad(p, id)
    \/ \E id \in 1..MaxBookings : CancelBookingReadFails(p, id)
    \/ UpdateBookingSave(p)
    \/ UpdateBookingSaveFails(p)
    \/ Return(p)

NextStorage ==
    \/ Tick
    \/ StorageCalls("c1")

SpecStorage == Init /\ [][NextStorage]_vars

\* ------------------------------------------------------- listing bookings
\* the pages a list request may ask for: the offset (page - 1) * limit stays
\* a machine integer
Pages == 1..((MaxInt \div MaxLimit) + 1)
Limits == 1..MaxLimit
\* the status filter of a list request: "" when left out
ListFilters == {"", "confirmed", "cancelled"}

\* one caller who creates and cancels bookings and lists them
ListCalls(p) ==
    \/ \E x \in RangeInputs : CreateBookingCheck(p, "r1", x[1], x[2], "")
    \/ CreateBookingInsert(p)
    \/ \E id \in 1..MaxBookings : CancelBookingLoad(p, id)
    \/ UpdateBookingSave(p)
    \/ \E page \in Pages, limit \in Limits, st \in ListFilters :
          ListBookings(p, page, limit, st)
    \/ Return(p)

NextList == ListCalls("c1")

SpecList == InitWide /\ [][NextList]_vars

\* ------------------------------------------------------- admission claims
\* a booking that holds its range
Active(b) == b.status \in {"pending", "confirmed"}

\* the half-open ranges [s1, e1) and [s2, e2) share an instant
Overlap(s1, e1, s2, e2) == s1 < e2 /\ s2 < e1

\* the rows of resource r, other than the call's own, that are active and
\* share an instant with [start, end)
ActiveOverlapping(r, start, end, own) ==
    {i \in DOMAIN bookings :
        /\ bookings[i].uuid # own
        /\ bookings[i].resourceID = r
        /\ Active(bookings[i])
        /\ Overlap(bookings[i].startTime, bookings[i].endTime, start, end)}

\* the booking a finished call wrote is still stored as written, and active
StoredActive(p) ==
    /\ pc[p] = "done"
    /\ call[p].res = "ok"
    /\ Active(call[p].rec)
    /\ \E i \in DOMAIN bookings : bookings[i] = call[p].rec

\* C1: for every resource and every instant t, at most one pending or
\* confirmed booking of the resource has start <= t < end.
C1_NoDoubleBooking ==
    \A r \in ResourceIDs, t \in Times :
        Cardinality({i \in DOMAIN bookings :
                        /\ bookings[i].resourceID = r
                        /\ Active(bookings[i])
                        /\ bookings[i].startTime <= t
                        /\ t < bookings[i].endTime}) <= 1

\* C2: of the CreateBooking calls of different callers for the same resource
\* and the same non-empty range, no two succeed and leave their bookings
\* both stored and active.
C2_OneCreateWins ==
    \A p, q \in Callers :
        (/\ p # q
         /\ call[p].op = "CreateBooking" /\ call[q].op = "CreateBooking"
         /\ call[p].resourceID = call[q].resourceID
         /\ call[p].start = call[q].start /\ call[p].end = call[q].end
         /\ call[p].start < call[p].end)
        => ~(StoredActive(p) /\ StoredActive(q))

\* C3: an UpdateBooking that moved a booking into a range and a CreateBooking,
\* or another UpdateBooking that moved a different booking, for an overlapping
\* range of the same resource do not both succeed and leave their bookings
\* both stored and active.
C3_UpdateAdmissionAtomic ==
    \A p, q \in Callers :
        (/\ p # q
         /\ call[p].op = "UpdateBooking" /\ call[p].start # ZeroTime
         /\ \/ call[q].op = "CreateBooking"
            \/ call[q].op = "UpdateBooking" /\ call[q].start # ZeroTime
         /\ call[p].rec.uuid # call[q].rec.uuid
         /\ call[p].rec.resourceID = call[q].rec.resourceID
         /\ Overlap(call[p].rec.startTime, call[p].rec.endTime,
                    call[q].rec.startTime, call[q].rec.endTime))
        => ~(StoredActive(p) /\ StoredActive(q))

\* a call of caller p, past its checks, for a non-empty range of an existing
\* resource that does not start in the past
ValidRequest(p) ==
    /\ pc[p] # "idle"
    /\ call[p].start < call[p].end
    /\ call[p].start >= now
    /\ ResourceExists(call[p].resourceID)

\* the call of caller p was admitted
Admitted(p) == call[p].res \in {"true", "pending", "ok"}

\* instant t lies in a stored window of resource r
InSomeWindow(r, t) ==
    \E w \in BagToSet(availabilities) :
        w.resourceID = r /\ w.startTime <= t /\ t < w.endTime

\* every instant of [start, end) lies in a window of resource r
Covered(r, start, end) ==
    \A t \in Times : (start <= t /\ t < end) => InSomeWindow(r, t)

\* C4: a CheckAvailability or CreateBooking for a covered range [T, e) that
\* starts where an active booking [s, T) of the resource ends, and shares no
\* instant with any booking of the resource, is admitted.
C4_BoundaryAdmitted ==
    \A p \in Callers :
        (/\ ValidRequest(p)
         /\ call[p].op \in {"CheckResourceAvailability", "CreateBooking"}
         /\ Covered(call[p].resourceID, call[p].start, call[p].end)
         /\ \E i \in DOMAIN bookings :
               /\ bookings[i].uuid # call[p].rec.uuid
               /\ bookings[i].resourceID = call[p].resourceID
               /\ Active(bookings[i])
               /\ bookings[i].startTime < bookings[i].endTime
               /\ bookings[i].endTime = call[p].start
         /\ \A i \in DOMAIN bookings :
               (bookings[i].uuid # call[p].rec.uuid
                  /\ bookings[i].resourceID = call[p].resourceID)
               => ~Overlap(bookings[i].startTime, bookings[i].endTime,
                           call[p].start, call[p].end))
        => Admitted(p)

\* C5: a CreateBooking for a covered future range is admitted when no active
\* booking of the resource shares an instant with the range, and is rejected
\* with ResourceNotAvailable, no booking record being made, when one does.
C5_FreeAdmittedOverlapRejected ==
    \A p \in Callers :
        (/\ ValidRequest(p)
         /\ call[p].op = "CreateBooking"
         /\ Covered(call[p].resourceID, call[p].start, call[p].end))
        => IF ActiveOverlapping(call[p].resourceID, call[p].start,
                                call[p].end, call[p].rec.uuid) = {}
           THEN Admitted(p)
           ELSE /\ call[p].res = "ResourceNotAvailable"
                /\ call[p].rec = NoBooking

\* C6: a CreateBooking for a non-empty future range of an existing resource
\* that the resource's windows do not cover ends at its checks with
\* ResourceNotAvailable and leaves the bookings table as it was.
C6_UncoveredRejected ==
    [][\A p \in Callers :
          (/\ pc[p] = "idle"
           /\ pc'[p] # "idle"
           /\ call'[p].op = "CreateBooking"
           /\ call'[p].start < call'[p].end
           /\ call'[p].start >= now
           /\ ResourceExists(call'[p].resourceID)
           /\ ~Covered(call'[p].resourceID, call'[p].start, call'[p].end))
          => /\ pc'[p] = "done"
             /\ call'[p].res = "ResourceNotAvailable"
             /\ bookings' = bookings]_vars

\* an uncovered range that no booking touches was rejected
C6_Witness ==
    \E p \in Callers :
        /\ pc[p] = "done"
        /\ call[p].op = "CreateBooking"
        /\ call[p].start < call[p].end
        /\ call[p].start >= now
        /\ ResourceExists(call[p].resourceID)
        /\ ~Covered(call[p].resourceID, call[p].start, call[p].end)
        /\ FindOverlappingBookings(bookings, call[p].resourceID,
                                   call[p].start, call[p].end) = {}
        /\ call[p].res = "ResourceNotAvailable"

\* ---------------------------------------------- coverage (SpecCal) claims
\* length of a recurrence period of the rule FREQ=DAILY, in instants
DayLength == 2

\* the stored windows of a resource
WindowsOf(r) == {w \in BagToSet(availabilities) : w.resourceID = r}

\* instant t lies in the half-open window w
InWindow(w, t) == w.startTime <= t /\ t < w.endTime

\* the union of the stored windows of r contains [start, end) with no gap
UnionCovers(r, start, end) ==
    /\ WindowsOf(r) # {}
    /\ \A t \in Times : (start <= t /\ t < end) =>
                            \E w \in WindowsOf(r) : InWindow(w, t)

\* [start, end) lies inside a later occurrence of the recurring window w
InLaterOccurrence(w, start, end) ==
    /\ w.isRecurring
    /\ \E k \in 1..MaxTime : /\ w.startTime + k * DayLength <= start
                             /\ end <= w.endTime + k * DayLength

\* a finished call of Repository.IsAvailable by caller p
AskedCoverage(p) == call[p].op = "IsAvailable"

\* C7: IsCovered is true for every non-empty range that the union of the
\* resource's windows contains with no gap, also when no single window
\* contains the range.
C7_MergedWindowsCover ==
    \A p \in Callers :
        (/\ AskedCoverage(p)
         /\ call[p].start < call[p].end
         /\ UnionCovers(call[p].resourceID, call[p].start, call[p].end))
        => call[p].res = "true"

\* C8: IsCovered is true only if the resource has a window and every instant
\* of [start, end) lies in some window of the resource.
C8_NoCoverageAcrossGap ==
    \A p \in Callers :
        (AskedCoverage(p) /\ call[p].res = "true")
        => UnionCovers(call[p].resourceID, call[p].start, call[p].end)

\* a range with an instant in no window, although two windows of the resource
\* together last at least as long as the range, was reported not covered
C8_Witness ==
    \E p \in Callers :
        /\ AskedCoverage(p)
        /\ call[p].res = "false"
        /\ \E t \in Times : /\ call[p].start <= t /\ t < call[p].end
                            /\ \A w \in WindowsOf(call[p].resourceID) :
                                  ~InWindow(w, t)
        /\ \E w1, w2 \in WindowsOf(call[p].resourceID) :
              /\ w1 # w2
              /\ (w1.endTime - w1.startTime) + (w2.endTime - w2.startTime)
                    >= call[p].end - call[p].start

\* C9: IsCovered is false when the range ends after the end of every window
\* of the resource, and true when the range has the start and the end of one
\* of its windows.
C9_PastLastEndAndExactMatch ==
    \A p \in Callers :
        AskedCoverage(p) =>
            /\ (\A w \in WindowsOf(call[p].resourceID) :
                    w.endTime < call[p].end) => call[p].res = "false"
            /\ (\E w \in WindowsOf(call[p].resourceID) :
                    /\ w.startTime = call[p].start
                    /\ w.endTime = call[p].end) => call[p].res = "true"

\* a non-empty range with the bounds of a stored window was reported covered
C9_Witness ==
    \E p \in Callers :
        /\ AskedCoverage(p)
        /\ call[p].start < call[p].end
        /\ call[p].res = "true"
        /\ \E w \in WindowsOf(call[p].resourceID) :
              w.startTime = call[p].start /\ w.endTime = call[p].end

\* C10: a range inside a later occurrence of a recurring window is covered:
\* IsCovered is true for it, and so is CheckAvailability when the range is
\* valid and no booking overlaps it.
C10_RecurringOccurrenceCovers ==
    \A p \in Callers :
        (/\ call[p].op \in {"IsAvailable", "CheckResourceAvailability"}
         /\ call[p].start < call[p].end
         /\ call[p].res \in {"true", "false"}
         /\ FindOverlappingBookings(bookings, call[p].resourceID,
                                    call[p].start, call[p].end) = {}
         /\ \E w \in WindowsOf(call[p].resourceID) :
               InLaterOccurrence(w, call[p].start, call[p].end))
        => call[p].res = "true"

\* ---------------------------------------------------------- status claims
\* the moves of the booking state machine
LegalTransition(from, to) ==
    \/ from = "pending" /\ to \in {"confirmed", "cancelled"}
    \/ from = "confirmed" /\ to \in {"completed", "cancelled"}

\* C11: whenever the stored status of a booking changes, the change is one
\* of pending -> confirmed, confirmed -> completed, pending -> cancelled,
\* confirmed -> cancelled; a cancelled or completed booking keeps its status.
C11_StatusFollowsMachine ==
    [][\A i \in DOMAIN bookings :
          bookings'[i].status # bookings[i].status
          => LegalTransition(bookings[i].status, bookings'[i].status)]_vars

\* C12: an UpdateBooking that asks only for a status to which the stored
\* status may not move ends at its checks with InvalidBookingStatus and
\* leaves the bookings table as it was.
C12_IllegalTransitionRejected ==
    [][\A p \in Callers :
          LET i == GetBookingByID(bookings, call'[p].id)
          IN (/\ pc[p] = "idle"
              /\ pc'[p] # "idle"
              /\ call'[p].op = "UpdateBooking"
              /\ call'[p].start = ZeroTime
              /\ call'[p].end = ZeroTime
              /\ i # 0
              /\ call'[p].status \in {"pending", "confirmed", "cancelled",
                                      "completed"}
              /\ call'[p].status # bookings[i].status
              /\ ~LegalTransition(bookings[i].status, call'[p].status))
             => /\ pc'[p] = "done"
                /\ call'[p].res = "InvalidBookingStatus"
                /\ bookings' = bookings]_vars

\* --------------------------------------------------- validation claims
\* C13: a request whose range has end <= start, the empty range end = start
\* included, stores nothing, so every stored booking has end > start.
C13_StoredRangesNonEmpty ==
    \A i \in DOMAIN bookings : bookings[i].startTime < bookings[i].endTime

\* C14: a CheckAvailability with end > start and start earlier than now
\* fails with PastDateBooking.
C14_CheckPastStart ==
    [][\A p \in Callers :
          (/\ pc[p] = "idle"
           /\ pc'[p] # "idle"
           /\ call'[p].op = "CheckResourceAvailability"
           /\ call'[p].start < call'[p].end
           /\ call'[p].start < now)
          => call'[p].res = "PastDateBooking"]_vars

\* the range an update request asks for: the fields it names, the stored
\* ones for the rest
AskedStart(c, b) == IF c.start # ZeroTime THEN c.start ELSE b.startTime
AskedEnd(c, b) == IF c.end # ZeroTime THEN c.end ELSE b.endTime

\* C15: a CreateBooking with end > start and start earlier than now, and an
\* UpdateBooking that changes a booking's range to one with end > start and
\* start earlier than now, end at their checks with PastDateBooking and
\* leave the bookings table as it was; a row that a call goes on to insert
\* or to save with a changed range has start >= now, the clock the call read.
C15_PastStartRejected ==
    [][/\ \A p \in Callers :
             (/\ pc[p] = "idle"
              /\ pc'[p] # "idle"
              /\ call'[p].op = "CreateBooking"
              /\ call'[p].start < call'[p].end
              /\ call'[p].start < now)
             => /\ pc'[p] = "done"
                /\ call'[p].res = "PastDateBooking"
                /\ bookings' = bookings
       /\ \A p \in Callers :
             LET i == GetBookingByID(bookings, call'[p].id)
             IN (/\ pc[p] = "idle"
                 /\ pc'[p] # "idle"
                 /\ call'[p].op = "UpdateBooking"
                 /\ i # 0
                 /\ <<AskedStart(call'[p], bookings[i]), AskedEnd(call'[p], bookings[i])>>
                       # <<bookings[i].startTime, bookings[i].endTime>>
                 /\ AskedStart(call'[p], bookings[i]) < AskedEnd(call'[p], bookings[i])
                 /\ AskedStart(call'[p], bookings[i]) < now)
                => /\ pc'[p] = "done"
                   /\ call'[p].res = "PastDateBooking"
                   /\ bookings' = bookings
       /\ \A p \in Callers :
             LET i == GetBookingByID(bookings, call'[p].id)
             IN (/\ pc[p] = "idle"
                 /\ pc'[p] \in {"insert", "save"}
                 /\ \/ call'[p].op = "CreateBooking"
                    \/ /\ call'[p].op = "UpdateBooking"
                       /\ <<call'[p].rec.startTime, call'[p].rec.endTime>>
                             # <<bookings[i].startTime, bookings[i].endTime>>)
                => call'[p].rec.startTime >= now]_vars

\* a create for a past start was rejected although the range is covered and
\* no booking touches it
C15_Witness ==
    \E p \in Callers :
        /\ pc[p] = "done"
        /\ call[p].op = "CreateBooking"
        /\ call[p].res = "PastDateBooking"
        /\ call[p].start < call[p].end
        /\ call[p].start < now
        /\ Covered(call[p].resourceID, call[p].start, call[p].end)
        /\ FindOverlappingBookings(bookings, call[p].resourceID,
                                   call[p].start, call[p].end) = {}

\* --------------------------------------------------- not-found claims
\* C16: a CheckAvailability or CreateBooking for a non-empty future range
\* of a resource that does not exist ends with ResourceNotFound, and an
\* UpdateBooking or CancelBooking that names no stored booking ends with
\* BookingNotFound; each leaves the bookings table as it was.
C16_NotFound ==
    [][\A p \in Callers :
          /\ (/\ pc[p] = "idle"
              /\ pc'[p] # "idle"
              /\ call'[p].op \in {"CheckResourceAvailability", "CreateBooking"}
              /\ call'[p].start < call'[p].end
              /\ call'[p].start >= now
              /\ ~ResourceExists(call'[p].resourceID))
             => /\ pc'[p] = "done"
                /\ call'[p].res = "ResourceNotFound"
                /\ bookings' = bookings
          /\ (/\ pc[p] = "idle"
              /\ pc'[p] # "idle"
              /\ call'[p].op \in {"UpdateBooking", "CancelBooking"}
              /\ \A i \in DOMAIN bookings : bookings[i].uuid # call'[p].id)
             => /\ pc'[p] = "done"
                /\ call'[p].res = "BookingNotFound"
                /\ bookings' = bookings]_vars

\* with bookings stored, a create named a resource that does not exist and
\* ended with ResourceNotFound
C16_Witness ==
    \E p \in Callers :
        /\ pc[p] = "done"
        /\ call[p].op = "CreateBooking"
        /\ call[p].start < call[p].end
        /\ call[p].start >= now
        /\ ~ResourceExists(call[p].resourceID)
        /\ call[p].res = "ResourceNotFound"
        /\ bookings # <<>>

\* ------------------------------------------------------- frame claims
\* C17: a CheckAvailability call, whatever its arguments and its result,
\* leaves the availabilities and the bookings tables as they were.
C17_CheckIsPure ==
    [][\A p \in Callers :
          (/\ pc[p] = "idle"
           /\ pc'[p] # "idle"
           /\ call'[p].op = "CheckResourceAvailability")
          => /\ pc'[p] = "done"
             /\ availabilities' = availabilities
             /\ bookings' = bookings]_vars

\* a check answered true while the bookings table held rows
C17_Witness ==
    \E p \in Callers :
        /\ pc[p] = "done"
        /\ call[p].op = "CheckResourceAvailability"
        /\ call[p].res = "true"
        /\ bookings # <<>>

\* ------------------------------------------------------ creation claims
\* C18: the insert of a successful CreateBooking adds exactly one row to the
\* bookings table and changes no other; the row carries the request's
\* resource and range, has status confirmed when the caller gave no status
\* and the caller's status otherwise, and its id is the id of no row stored
\* before.
C18_CreateStoresOne ==
    [][\A p \in Callers :
          (pc[p] = "insert" /\ pc'[p] = "done")
          => /\ call'[p].res = "ok"
             /\ Len(bookings') = Len(bookings) + 1
             /\ SubSeq(bookings', 1, Len(bookings)) = bookings
             /\ LET row == bookings'[Len(bookings')]
                IN /\ row.resourceID = call[p].resourceID
                   /\ row.startTime = call[p].start
                   /\ row.endTime = call[p].end
                   /\ row.status = IF call[p].status = "" THEN "confirmed"
                                   ELSE call[p].status
                   /\ \A i \in DOMAIN bookings : bookings[i].uuid # row.uuid]_vars

\* both kinds of create have succeeded: one without a status, stored as
\* confirmed, and one with the caller's status
C18_Witness ==
    /\ \E i \in DOMAIN bookings : bookings[i].status = "pending"
    /\ \E p \in Callers :
          /\ pc[p] = "done"
          /\ call[p].op = "CreateBooking"
          /\ call[p].res = "ok"
          /\ call[p].status = ""
          /\ bookings[Len(bookings)].status = "confirmed"
          /\ Len(bookings) > 1

\* --------------------------------------------------------- update claims
\* C19: an UpdateBooking that moves a booking to another non-empty future
\* range is admitted when the resource's windows cover the range and no
\* active booking other than the moved one shares an instant with it, and is
\* rejected, the bookings table staying as it was, when the range reaches
\* past the end of the windows.
C19_MoveReadmitted ==
    [][\A p \in Callers :
          LET i == GetBookingByID(bookings, call'[p].id)
              b == bookings[i]
              s == AskedStart(call'[p], b)
              e == AskedEnd(call'[p], b)
          IN (/\ pc[p] = "idle"
              /\ pc'[p] # "idle"
              /\ call'[p].op = "UpdateBooking"
              /\ i # 0
              /\ <<s, e>> # <<b.startTime, b.endTime>>
              /\ s < e
              /\ s >= now)
             => /\ (/\ Covered(b.resourceID, s, e)
                    /\ ActiveOverlapping(b.resourceID, s, e, b.uuid) = {})
                   => pc'[p] = "save"
                /\ ~Covered(b.resourceID, s, e)
                   => /\ pc'[p] = "done"
                      /\ call'[p].res \in {"BookingOverlap",
                                           "ResourceNotAvailable"}
                      /\ bookings' = bookings]_vars

\* C20: the save of an UpdateBooking, whatever fields the request named,
\* does not change both the range and the status of the booking: when the
\* stored range differs from the one before the call the status is the one
\* before the call, and no other row changes.
C20_RangeOrStatus ==
    [][\A p \in Callers :
          (pc[p] = "save" /\ pc'[p] = "done" /\ call[p].op = "UpdateBooking")
          => /\ DOMAIN bookings' = DOMAIN bookings
             /\ \A i \in DOMAIN bookings :
                   /\ bookings[i].uuid # call[p].id => bookings'[i] = bookings[i]
                   /\ ~(/\ <<bookings'[i].startTime, bookings'[i].endTime>>
                             # <<bookings[i].startTime, bookings[i].endTime>>
                        /\ bookings'[i].status # bookings[i].status)]_vars

\* an update that named a new start and the status cancelled was saved: the
\* booking has the new start and is not cancelled
C20_Witness ==
    \E p \in Callers :
        /\ pc[p] = "done"
        /\ call[p].op = "UpdateBooking"
        /\ call[p].res = "ok"
        /\ call[p].start # ZeroTime
        /\ call[p].status = "cancelled"
        /\ \E i \in DOMAIN bookings :
              /\ bookings[i].uuid = call[p].id
              /\ bookings[i].startTime = call[p].start
              /\ bookings[i].status # "cancelled"

\* ------------------------------------------------------ cancellation claims
\* C21: the save of a CancelBooking for a booking that is already cancelled
\* leaves the bookings table exactly as it was.
C21_CancelIdempotent ==
    [][\A p \in Callers :
          (/\ pc[p] = "save"
           /\ pc'[p] = "done"
           /\ call[p].op = "CancelBooking"
           /\ \E i \in DOMAIN bookings :
                 /\ bookings[i].uuid = call[p].id
                 /\ bookings[i].status = "cancelled")
          => /\ call'[p].res = "ok"
             /\ bookings' = bookings]_vars

\* a second CancelBooking has loaded a booking that is already cancelled and
\* is at its save
C21_Witness ==
    \E p \in Callers :
        /\ pc[p] = "save"
        /\ call[p].op = "CancelBooking"
        /\ \E i \in DOMAIN bookings :
              /\ bookings[i].uuid = call[p].id
              /\ bookings[i].status = "cancelled"
              /\ call[p].rec = bookings[i]

\* C22: bookings that are cancelled or completed block nothing: when every
\* stored booking of the resource is cancelled or completed, a
\* CheckAvailability for a covered non-empty future range answers true and a
\* CreateBooking for it passes its checks.
C22_TerminalBookingsDoNotBlock ==
    [][\A p \in Callers :
          (/\ pc[p] = "idle"
           /\ pc'[p] # "idle"
           /\ call'[p].op \in {"CheckResourceAvailability", "CreateBooking"}
           /\ call'[p].start < call'[p].end
           /\ call'[p].start >= now
           /\ ResourceExists(call'[p].resourceID)
           /\ Covered(call'[p].resourceID, call'[p].start, call'[p].end)
           /\ \A i \in DOMAIN bookings :
                 bookings[i].resourceID = call'[p].resourceID
                 => bookings[i].status \in {"cancelled", "completed"})
          => call'[p].res \in {"true", "pending"}]_vars

\* C23: no step removes a row of the bookings table or changes its id, and
\* the save of a CancelBooking changes nothing but the status of the
\* booking it names, which becomes cancelled.
C23_NeverDeleted ==
    [][/\ \A i \in DOMAIN bookings :
             /\ i \in DOMAIN bookings'
             /\ bookings'[i].uuid = bookings[i].uuid
       /\ \A p \in Callers :
             (pc[p] = "save" /\ pc'[p] = "done" /\ call[p].op = "CancelBooking")
             => /\ DOMAIN bookings' = DOMAIN bookings
                /\ \A i \in DOMAIN bookings :
                      bookings'[i] =
                         IF bookings[i].uuid = call[p].id
                         THEN [bookings[i] EXCEPT !.status = "cancelled"]
                         ELSE bookings[i]]_vars

\* a booking was cancelled while another was stored: both rows are there
C23_Witness ==
    \E p \in Callers :
        /\ pc[p] = "done"
        /\ call[p].op = "CancelBooking"
        /\ call[p].res = "ok"
        /\ Len(bookings) > 1
        /\ \E i \in DOMAIN bookings :
              /\ bookings[i].uuid = call[p].id
              /\ bookings[i].status = "cancelled"

\* ------------------------------------------------- stored-record claims
\* C24: a CreateAvailability with end <= start, the empty range end = start
\* included, stores nothing, so every stored availability window has
\* end > start.
C24_WindowsNonEmpty ==
    \A w \in BagToSet(availabilities) : w.startTime < w.endTime

\* C25: the status of every stored booking is one of pending, confirmed,
\* cancelled and completed, whatever status the caller of CreateBooking
\* supplied.
C25_StatusInClosedSet ==
    \A i \in DOMAIN bookings : isValidStatus(bookings[i].status)

\* ------------------------------------------------------- storage claims
\* C26: a CreateBooking whose insert met a storage conflict does not end
\* with that failure: the insert is retried, and the call ends either with
\* the booking stored or, the retries exhausted, with ConflictError.
C26_WriteFailureRetried ==
    \A p \in Callers :
        (pc[p] = "done" /\ call[p].op = "CreateBooking")
        => call[p].res # "WriteError"

\* C30: the checks of a CreateBooking, UpdateBooking or CancelBooking call
\* write nothing, and the step in which such a call ends with an error
\* leaves the bookings and the availabilities tables as they were: a call
\* that returns an error has changed neither.
C30_ErrorLeavesStore ==
    [][\A p \in Callers :
          /\ (/\ pc[p] = "idle"
              /\ pc'[p] # "idle"
              /\ call'[p].op \in {"CreateBooking", "UpdateBooking",
                                  "CancelBooking"})
             => /\ bookings' = bookings
                /\ availabilities' = availabilities
          /\ (/\ pc[p] # "done"
              /\ pc'[p] = "done"
              /\ call'[p].op \in {"CreateBooking", "UpdateBooking",
                                  "CancelBooking"}
              /\ call'[p].res # "ok")
             => /\ bookings' = bookings
                /\ availabilities' = availabilities]_vars

\* an update was rejected with BookingOverlap after its in-memory copy had
\* taken the new range: the stored booking still has the old one
C30_Witness ==
    \E p \in Callers :
        /\ pc[p] = "done"
        /\ call[p].op = "UpdateBooking"
        /\ call[p].res = "BookingOverlap"
        /\ \E i \in DOMAIN bookings :
              /\ bookings[i].uuid = call[p].id
              /\ <<bookings[i].startTime, bookings[i].endTime>>
                    # <<call[p].start, call[p].end>>

\* --------------------------------------------------------- listing claims
\* C27: a list call with page >= 1 and limit >= 1 returns the matching
\* bookings at positions (page-1)*limit+1 .. page*limit of an ascending
\* start order, total is the number of matching bookings, and hasNext is
\* page*limit < total, true exactly when a matching booking lies on a later
\* page.
C27_Pagination ==
    \A p \in Callers :
        (pc[p] = "done" /\ call[p].op = "ListBookings")
        => LET l == call[p].list
               rows == MatchingRows(bookings, call[p].status)
               first == (l.page - 1) * l.limit + 1
               last == IF l.page * l.limit < Cardinality(rows)
                       THEN l.page * l.limit ELSE Cardinality(rows)
           IN /\ l.total = Cardinality(rows)
              /\ \E ord \in StartOrders(bookings, rows) :
                    l.items = [j \in 1..(last - first + 1) |->
                                  bookings[ord[first + j - 1]]]
              /\ l.hasNext = (l.page * l.limit < l.total)
              /\ l.hasNext = (Cardinality(rows) > last)

\* ----------------------------------------------------- interleaving claims
\* C28: when a CancelBooking and an UpdateBooking that names neither a time
\* nor a status (it changes only notes or reference) have both succeeded on
\* the same booking, in whatever way their steps interleaved, the stored
\* status of the booking is cancelled.
C28_CancellationKept ==
    \A p, q \in Callers :
        (/\ p # q
         /\ pc[p] = "done" /\ call[p].op = "CancelBooking"
         /\ call[p].res = "ok"
         /\ pc[q] = "done" /\ call[q].op = "UpdateBooking"
         /\ call[q].res = "ok"
         /\ call[q].id = call[p].id
         /\ call[q].start = ZeroTime /\ call[q].end = ZeroTime
         /\ call[q].status = "")
        => \A i \in DOMAIN bookings :
              bookings[i].uuid = call[p].id => bookings[i].status = "cancelled"

\* C29: with one caller who creates bookings with the default status, moves
\* them and cancels them, no two pending or confirmed bookings of the same
\* resource have ranges that share an instant.
C29_SequentialNoOverlap ==
    \A i, j \in DOMAIN bookings :
        (/\ i # j
         /\ bookings[i].resourceID = bookings[j].resourceID
         /\ Active(bookings[i])
         /\ Active(bookings[j]))
        => ~Overlap(bookings[i].startTime, bookings[i].endTime,
                    bookings[j].startTime, bookings[j].endTime)

\* a booking was moved while another active booking was stored, and both
\* are active
C29_Witness ==
    \E p \in Callers :
        /\ pc[p] = "done"
        /\ call[p].op = "UpdateBooking"
        /\ call[p].res = "ok"
        /\ \E i, j \in DOMAIN bookings :
              /\ i # j
              /\ bookings[i].uuid = call[p].id
              /\ bookings[i].startTime = call[p].start
              /\ Active(bookings[i])
              /\ Active(bookings[j])

====
